---- MODULE Spec2Model ----
(***************************************************************************)
(* A model of the core of bitx-sh/config:                                  *)
(*   - ConfigManager (packages/core/src/config/index.ts): the stored       *)
(*     configuration, merge() and load(), both of which combine value      *)
(*     trees with defu();                                                  *)
(*   - SchemaValidator (packages/core/src/schema/validator.ts): the        *)
(*     schema -> zod conversion, the validator cache and validate().  The  *)
(*     file declares the class twice (lines 4-135 and 163-364); which of   *)
(*     the two a build puts in effect is not determined by the source, so  *)
(*     the model carries both and Init chooses;                            *)
(*   - PluginSystem (packages/core/src/plugins.ts): the registry, the      *)
(*     hooks map, register/unregister/addHook/removeHook and callHook.     *)
(*   - BitXCore (unnamed/part_003): the schema cache with loadSchema, and  *)
(*     validate.                                                           *)
(* JavaScript values are tagged records; objects keep their keys in        *)
(* insertion order, as JavaScript does.                                    *)
(***************************************************************************)
EXTENDS Integers, Sequences, FiniteSets, TLC

VARIABLES
    config,      \* ConfigManager.config
    cfgCall,     \* the last ConfigManager call: operation, argument, pre-state, outcome
    cfgOps,      \* number of ConfigManager calls made so far
    definition,  \* which of the two SchemaValidator classes of validator.ts is in effect
    cache,       \* SchemaValidator.cache: cache key -> zod schema
    conversions, \* root convertToZod runs made by getOrCreateZodSchema, oldest first
    vCall,       \* the last validate call: data, schema, outcome
    registry,    \* PluginSystem.registry: plugin name -> plugin
    hooks,       \* PluginSystem.hooks: hook name -> Set<Hook> (its entry list)
    hookCall,    \* the callHook in flight, or its final outcome
    regLog,      \* the plugin registrations still standing, oldest first
    pCall,       \* the last register/unregister call and its outcome
    pOps,        \* number of PluginSystem calls made so far
    schemas,     \* BitXCore.schemas: schema type -> schema
    loads,       \* the loadSchema calls suspended at `await plugin.loadSchema()`
    invoked,     \* schema type -> plugin.loadSchema() invocations made for it
    coreCall,    \* the last BitXCore call that settled and its outcome
    coreOps      \* number of BitXCore calls made so far

vars == <<config, cfgCall, cfgOps, definition, cache, conversions, vCall,
          registry, hooks, hookCall, regLog, pCall, pOps,
          schemas, loads, invoked, coreCall, coreOps>>

cfgVars == <<config, cfgCall, cfgOps>>
valVars == <<definition, cache, conversions, vCall>>
plgVars == <<registry, hooks, hookCall, regLog, pCall, pOps>>
coreVars == <<schemas, loads, invoked, coreCall, coreOps>>

(***************************************************************************)
(* Bounds of the model.                                                    *)
(***************************************************************************)
\* ConfigManager calls explored.
MaxCfgOps == 2
\* Entries the validator cache may hold (the cache itself is unbounded).
MaxCached == 2
\* PluginSystem calls explored.
MaxPluginOps == 4
\* BitXCore calls explored.
MaxCoreOps == 3

(***************************************************************************)
(* JavaScript values.  A number n is stored as n2 = 2*n, so that halves    *)
(* (1.5) are values too.  An object is its list of <<key, value>> entries  *)
(* in insertion order; an array is its list of elements.                   *)
(***************************************************************************)
Undef == [t |-> "undefined"]
Null == [t |-> "null"]
Bool(b) == [t |-> "boolean", b |-> b]
Num(i) == [t |-> "number", n2 |-> 2 * i]
Half(k) == [t |-> "number", n2 |-> k]
\* The numbers that are not finite.
NaN == [t |-> "number", special |-> "NaN"]
Infinity == [t |-> "number", special |-> "Infinity"]
IsFinite(v) == "n2" \in DOMAIN v
\* a < b on numbers: false whenever one of the two is NaN.
Below(a, b) ==
    IF IsFinite(a) /\ IsFinite(b) THEN a.n2 < b.n2
    ELSE a # NaN /\ b = Infinity /\ a # Infinity
Str(s) == [t |-> "string", s |-> s]
Arr(e) == [t |-> "array", e |-> e]
Obj(kv) == [t |-> "object", kv |-> kv]

IsObj(v) == v.t = "object"
IsArr(v) == v.t = "array"
IsNullish(v) == v.t \in {"null", "undefined"}

\* The keys of an object, in insertion order.
KeySeq(o) == [i \in 1..Len(o.kv) |-> o.kv[i][1]]
KeySet(o) == {o.kv[i][1] : i \in 1..Len(o.kv)}
Has(o, k) == k \in KeySet(o)
\* o[k]: undefined when k is not a key of o.
Get(o, k) ==
    IF Has(o, k)
    THEN LET i == CHOOSE j \in 1..Len(o.kv) : o.kv[j][1] = k IN o.kv[i][2]
    ELSE Undef
\* o[k] = v: an existing key keeps its place, a new key is appended.
Put(o, k, v) ==
    IF Has(o, k)
    THEN Obj([i \in 1..Len(o.kv) |-> IF o.kv[i][1] = k THEN <<k, v>> ELSE o.kv[i]])
    ELSE Obj(Append(o.kv, <<k, v>>))

\* Structural equality of two values: objects compared as mappings (key
\* order ignored), everything else by content.
RECURSIVE SameContent(_, _)
SameContent(a, b) ==
    IF a.t # b.t THEN FALSE
    ELSE IF a.t = "object"
    THEN /\ KeySet(a) = KeySet(b)
         /\ \A k \in KeySet(a) : SameContent(Get(a, k), Get(b, k))
    ELSE IF a.t = "array"
    THEN /\ Len(a.e) = Len(b.e)
         /\ \A i \in 1..Len(a.e) : SameContent(a.e[i], b.e[i])
    ELSE a = b

(***************************************************************************)
(* defu (the merge ConfigManager delegates to).  _defu copies the defaults *)
(* and then walks the keys of the base object: a null or undefined value   *)
(* is skipped, two arrays are concatenated (base first), two plain objects *)
(* are merged recursively, anything else is overwritten by the base value. *)
(* defu(a, b) reduces its arguments from the empty object:                  *)
(* _defu(_defu({}, a), b).                                                  *)
(***************************************************************************)
RECURSIVE DefuWalk(_, _, _)
DefuInner(baseObject, defaults) ==
    DefuWalk(baseObject, IF IsObj(defaults) THEN defaults ELSE Obj(<<>>), 1)

DefuWalk(baseObject, object, i) ==
    IF i > Len(baseObject.kv) THEN object
    ELSE LET key == baseObject.kv[i][1]
             value == baseObject.kv[i][2]
             old == Get(object, key)
             next == IF IsNullish(value) THEN object
                     ELSE IF IsArr(value) /\ IsArr(old)
                     THEN Put(object, key, Arr(value.e \o old.e))
                     ELSE IF IsObj(value) /\ IsObj(old)
                     THEN Put(object, key, DefuInner(value, old))
                     ELSE Put(object, key, value)
         IN DefuWalk(baseObject, next, i + 1)

defu(object, defaults) ==
    DefuInner(DefuInner(Obj(<<>>), object), defaults)

(***************************************************************************)
(* zod.  A zod schema is a tagged record: any, boolean, null, string and   *)
(* number with their checks in the order they were added, enum, array,     *)
(* object (its shape in key order, unknown keys stripped), optional and    *)
(* record.  A schema that could not be built is the Thrown marker.         *)
(* ParseZod is safeParse's walk: it returns the issues in the order zod    *)
(* adds them and the output value.                                         *)
(***************************************************************************)
ZAny == [z |-> "any"]
ZUnknown == [z |-> "unknown"]
ZBoolean == [z |-> "boolean"]
ZNull == [z |-> "null"]
ZString(checks) == [z |-> "string", checks |-> checks]
ZNumber(checks) == [z |-> "number", checks |-> checks]
ZEnum(values) == [z |-> "enum", values |-> values]
ZArray(item) == [z |-> "array", item |-> item]
ZObject(shape) == [z |-> "object", shape |-> shape]
ZOptional(inner) == [z |-> "optional", inner |-> inner]
ZRecord(value) == [z |-> "record", value |-> value]
Thrown(error) == [z |-> "throw", error |-> error]
IsThrown(zs) == zs.z = "throw"

\* An element of an issue's path: an object key or an array index.
KeyP(k) == [key |-> k]
IdxP(i) == [idx |-> i]
Issue(path, code, message) == [path |-> path, code |-> code, message |-> message]

InvalidType(expected, v, path) ==
    Issue(path, "invalid_type",
          IF v.t = "undefined" THEN "Required"
          ELSE "Expected " \o expected \o ", received " \o v.t)

\* The regular expressions of the model and the strings each one matches.
\* "(" is not a regular expression: new RegExp("(") throws a SyntaxError.
ValidRegExp(p) == p # "("
RegExpTest(p, s) ==
    IF p = "^a" THEN s \in {"a", "ab", "abc"}
    ELSE IF p = "^.$" THEN Len(s) = 1
    ELSE FALSE
\* The strings of the model that z.string().email() / .url() accept.
IsEmail(s) == s \in {"a@b.co"}
IsUrl(s) == s \in {"http://b.co"}

\* The issues of one string check / number check on a value of the right type.
StringCheck(c, v, path) ==
    IF c[1] = "min" /\ Len(v.s) * 2 < c[2].n2
    THEN <<Issue(path, "too_small", "String is too short")>>
    ELSE IF c[1] = "max" /\ Len(v.s) * 2 > c[2].n2
    THEN <<Issue(path, "too_big", "String is too long")>>
    ELSE IF c[1] = "regex" /\ ~RegExpTest(c[2].s, v.s)
    THEN <<Issue(path, "invalid_string", "Invalid")>>
    ELSE IF c[1] = "email" /\ ~IsEmail(v.s)
    THEN <<Issue(path, "invalid_string", "Invalid email")>>
    ELSE IF c[1] = "url" /\ ~IsUrl(v.s)
    THEN <<Issue(path, "invalid_string", "Invalid url")>>
    ELSE <<>>

NumberCheck(c, v, path) ==
    IF c[1] = "min" /\ Below(v, c[2])
    THEN <<Issue(path, "too_small", "Number is too small")>>
    ELSE IF c[1] = "max" /\ Below(c[2], v)
    THEN <<Issue(path, "too_big", "Number is too big")>>
    ELSE IF c[1] = "int" /\ v.n2 % 2 # 0
    THEN <<Issue(path, "invalid_type", "Expected integer, received float")>>
    ELSE IF c[1] = "multipleOf" /\ (c[2].n2 <= 0 \/ v.n2 % c[2].n2 # 0)
    THEN <<Issue(path, "not_multiple_of", "Number must be a multiple")>>
    ELSE <<>>

RECURSIVE StringChecks(_, _, _, _)
StringChecks(checks, v, path, i) ==
    IF i > Len(checks) THEN <<>>
    ELSE StringCheck(checks[i], v, path) \o StringChecks(checks, v, path, i + 1)

RECURSIVE NumberChecks(_, _, _, _)
NumberChecks(checks, v, path, i) ==
    IF i > Len(checks) THEN <<>>
    ELSE NumberCheck(checks[i], v, path) \o NumberChecks(checks, v, path, i + 1)

Parsed(issues, value) == [issues |-> issues, value |-> value]

RECURSIVE ParseZod(_, _, _)
RECURSIVE ParseShape(_, _, _, _)
RECURSIVE ParseItems(_, _, _, _)
RECURSIVE ParseRecord(_, _, _, _)
RECURSIVE ParseShape_DataOrder(_, _, _, _)

\* An object parse that walks the keys in the input's order (the shape's keys
\* the input lacks come last).
ParseShape_DataOrder(shape, data, path, i) ==
    LET InShape(k) == \E j \in 1..Len(shape) : shape[j][1] = k
        NotInData(entry) == ~Has(data, entry[1])
        EntryOf(k) == shape[CHOOSE j \in 1..Len(shape) : shape[j][1] = k]
        present == SelectSeq(KeySeq(data), InShape)
        order == [j \in 1..Len(present) |-> EntryOf(present[j])]
                 \o SelectSeq(shape, NotInData)
    IN IF i > Len(order) THEN Parsed(<<>>, Obj(<<>>))
       ELSE LET key == order[i][1]
                one == ParseZod(order[i][2], Get(data, key), Append(path, KeyP(key)))
                rest == ParseShape_DataOrder(shape, data, path, i + 1)
                kept == IF one.value # Undef \/ Has(data, key)
                        THEN <<(<<key, one.value>>)>> ELSE <<>>
            IN Parsed(one.issues \o rest.issues, Obj(kept \o rest.value.kv))

\* ZodObject._parse: the shape's keys in order, each value parsed at
\* path + key; a key is written to the output when its parsed value is
\* defined or the key is in the input.  Unknown keys are stripped.
ParseShape(shape, data, path, i) ==
    IF i > Len(shape) THEN Parsed(<<>>, Obj(<<>>))
    ELSE LET key == shape[i][1]
             one == ParseZod(shape[i][2], Get(data, key), Append(path, KeyP(key)))
             rest == ParseShape(shape, data, path, i + 1)
             kept == IF one.value # Undef \/ Has(data, key)
                     THEN <<(<<key, one.value>>)>> ELSE <<>>
         IN Parsed(one.issues \o rest.issues, Obj(kept \o rest.value.kv))

\* ZodArray._parse: every element parsed at path + index, in order.
ParseItems(item, elems, path, i) ==
    IF i > Len(elems) THEN Parsed(<<>>, Arr(<<>>))
    ELSE LET one == ParseZod(item, elems[i], Append(path, IdxP(i - 1)))
             rest == ParseItems(item, elems, path, i + 1)
         IN Parsed(one.issues \o rest.issues, Arr(<<one.value>> \o rest.value.e))

\* ZodRecord._parse: every key of the input, in the input's order.
ParseRecord(valueType, data, path, i) ==
    IF i > Len(data.kv) THEN Parsed(<<>>, Obj(<<>>))
    ELSE LET key == data.kv[i][1]
             one == ParseZod(valueType, data.kv[i][2], Append(path, KeyP(key)))
             rest == ParseRecord(valueType, data, path, i + 1)
         IN Parsed(one.issues \o rest.issues,
                   Obj(<<(<<key, one.value>>)>> \o rest.value.kv))

ParseZod(zs, data, path) ==
    CASE zs.z \in {"any", "unknown"} -> Parsed(<<>>, data)
      [] zs.z = "optional" ->
            IF data = Undef THEN Parsed(<<>>, Undef)
            ELSE ParseZod(zs.inner, data, path)
      [] zs.z = "boolean" ->
            IF data.t = "boolean" THEN Parsed(<<>>, data)
            ELSE Parsed(<<InvalidType("boolean", data, path)>>, data)
      [] zs.z = "null" ->
            IF data.t = "null" THEN Parsed(<<>>, data)
            ELSE Parsed(<<InvalidType("null", data, path)>>, data)
      [] zs.z = "string" ->
            IF data.t = "string"
            THEN Parsed(StringChecks(zs.checks, data, path, 1), data)
            ELSE Parsed(<<InvalidType("string", data, path)>>, data)
      [] zs.z = "number" ->
            IF data.t = "number"
            THEN Parsed(NumberChecks(zs.checks, data, path, 1), data)
            ELSE Parsed(<<InvalidType("number", data, path)>>, data)
      [] zs.z = "enum" ->
            IF data.t # "string"
            THEN Parsed(<<InvalidType("enum", data, path)>>, data)
            ELSE IF \E i \in 1..Len(zs.values) : zs.values[i] = data
            THEN Parsed(<<>>, data)
            ELSE Parsed(<<Issue(path, "invalid_enum_value", "Invalid enum value")>>, data)
      [] zs.z = "array" ->
            IF data.t = "array" THEN ParseItems(zs.item, data.e, path, 1)
            ELSE Parsed(<<InvalidType("array", data, path)>>, data)
      [] zs.z = "object" ->
            IF data.t = "object" THEN ParseShape(zs.shape, data, path, 1)
            ELSE Parsed(<<InvalidType("object", data, path)>>, data)
      [] zs.z = "record" ->
            IF data.t = "object" THEN ParseRecord(zs.value, data, path, 1)
            ELSE Parsed(<<InvalidType("object", data, path)>>, data)

\* zodSchema.safeParse(data): success iff no issue was added.
safeParse(zs, data) ==
    LET r == ParseZod(zs, data, <<>>)
    IN IF r.issues = <<>>
       THEN [success |-> TRUE, data |-> r.value, issues |-> <<>>]
       ELSE [success |-> FALSE, data |-> Undef, issues |-> r.issues]

(***************************************************************************)
(* JSON.stringify.  An object is written with its keys in insertion order  *)
(* and without the keys whose value is undefined; an undefined array       *)
(* element is written as null; JSON.stringify(undefined) is undefined.     *)
(***************************************************************************)
Quote(s) == "\"" \o s \o "\""

NumberText(n2) ==
    LET a == IF n2 < 0 THEN 0 - n2 ELSE n2
    IN (IF n2 < 0 THEN "-" ELSE "") \o ToString(a \div 2)
       \o (IF a % 2 = 1 THEN ".5" ELSE "")

RECURSIVE stringify(_)
RECURSIVE StringifyEntries(_, _, _)
RECURSIVE StringifyElements(_, _)

StringifyEntries(kv, i, first) ==
    IF i > Len(kv) THEN ""
    ELSE IF kv[i][2] = Undef THEN StringifyEntries(kv, i + 1, first)
    ELSE (IF first THEN "" ELSE ",") \o Quote(kv[i][1]) \o ":"
         \o stringify(kv[i][2]) \o StringifyEntries(kv, i + 1, FALSE)

StringifyElements(e, i) ==
    IF i > Len(e) THEN ""
    ELSE (IF i = 1 THEN "" ELSE ",")
         \o (IF e[i] = Undef THEN "null" ELSE stringify(e[i]))
         \o StringifyElements(e, i + 1)

stringify(v) ==
    CASE v.t = "undefined" -> "undefined"
      [] v.t = "null" -> "null"
      [] v.t = "boolean" -> IF v.b THEN "true" ELSE "false"
      [] v.t = "number" -> IF IsFinite(v) THEN NumberText(v.n2) ELSE "null"
      [] v.t = "string" -> Quote(v.s)
      [] v.t = "array" -> "[" \o StringifyElements(v.e, 1) \o "]"
      [] v.t = "object" -> "{" \o StringifyEntries(v.kv, 1, TRUE) \o "}"

(***************************************************************************)
(* SchemaValidator: the conversion of a schema to a zod schema.            *)
(***************************************************************************)
\* schema.k: undefined on a value that is not an object.
Field(v, k) == IF IsObj(v) THEN Get(v, k) ELSE Undef
Truthy(v) ==
    ~ \/ v.t \in {"undefined", "null"}
      \/ v = Bool(FALSE)
      \/ (v.t = "number" /\ (v = NaN \/ (IsFinite(v) /\ v.n2 = 0)))
      \/ v = Str("")
\* array.includes(key)
Includes(a, k) == IsArr(a) /\ \E i \in 1..Len(a.e) : a.e[i] = Str(k)

createNumberSchema(schema) ==
    LET min == Field(schema, "minimum")
        max == Field(schema, "maximum")
    IN ZNumber((IF min # Undef THEN <<(<<"min", min>>)>> ELSE <<>>)
               \o (IF max # Undef THEN <<(<<"max", max>>)>> ELSE <<>>)
               \o (IF Field(schema, "type") = Str("integer")
                   THEN <<(<<"int", Null>>)>> ELSE <<>>))

\* createStringSchema without its enum branch: the length and pattern checks
\* are kept and the enum values are ignored.
createStringSchema_NoEnum(schema) ==
    LET min == Field(schema, "minLength")
        max == Field(schema, "maxLength")
        pattern == Field(schema, "pattern")
    IN IF Truthy(pattern) /\ ~ValidRegExp(pattern.s) THEN Thrown("SyntaxError")
       ELSE ZString((IF min # Undef THEN <<(<<"min", min>>)>> ELSE <<>>)
                    \o (IF max # Undef THEN <<(<<"max", max>>)>> ELSE <<>>)
                    \o (IF Truthy(pattern) THEN <<(<<"regex", pattern>>)>> ELSE <<>>))

createStringSchema(schema) ==
    LET min == Field(schema, "minLength")
        max == Field(schema, "maxLength")
        pattern == Field(schema, "pattern")
        enum == Field(schema, "enum")
    IN IF Truthy(pattern) /\ ~ValidRegExp(pattern.s) THEN Thrown("SyntaxError")
       ELSE IF Truthy(enum) THEN ZEnum(enum.e)
       ELSE ZString((IF min # Undef THEN <<(<<"min", min>>)>> ELSE <<>>)
                    \o (IF max # Undef THEN <<(<<"max", max>>)>> ELSE <<>>)
                    \o (IF Truthy(pattern) THEN <<(<<"regex", pattern>>)>> ELSE <<>>))

RECURSIVE convertToZod(_)
RECURSIVE ConvertProperties(_, _, _)

\* The loop of createObjectSchema over Object.entries(schema.properties):
\* a required key gets the property's schema, any other key its optional().
ConvertProperties(props, required, i) ==
    IF i > Len(props.kv) THEN ZObject(<<>>)
    ELSE LET key == props.kv[i][1]
             propertySchema == convertToZod(props.kv[i][2])
             rest == ConvertProperties(props, required, i + 1)
             field == IF Includes(required, key) THEN propertySchema
                      ELSE ZOptional(propertySchema)
         IN IF IsThrown(propertySchema) THEN propertySchema
            ELSE IF IsThrown(rest) THEN rest
            ELSE ZObject(<<(<<key, field>>)>> \o rest.shape)

createObjectSchema(schema) ==
    IF Truthy(Field(schema, "properties")) /\ IsObj(Field(schema, "properties"))
    THEN ConvertProperties(Field(schema, "properties"), Field(schema, "required"), 1)
    ELSE ZObject(<<>>)

createArraySchema(schema) ==
    IF Truthy(Field(schema, "items"))
    THEN LET itemSchema == convertToZod(Field(schema, "items"))
         IN IF IsThrown(itemSchema) THEN itemSchema ELSE ZArray(itemSchema)
    ELSE ZArray(ZAny)

\* Reading schema.type of null or undefined is a TypeError.
convertToZod(schema) ==
    IF IsNullish(schema) THEN Thrown("TypeError")
    ELSE LET type == Field(schema, "type")
         IN CASE type = Str("object") -> createObjectSchema(schema)
              [] type = Str("array") -> createArraySchema(schema)
              [] type = Str("string") -> createStringSchema(schema)
              [] type \in {Str("number"), Str("integer")} -> createNumberSchema(schema)
              [] type = Str("boolean") -> ZBoolean
              [] type = Str("null") -> ZNull
              [] OTHER -> ZAny

\* formatZodErrors: each issue's path and message, in the issues' order.
formatZodErrors(issues) ==
    [i \in 1..Len(issues) |-> [path |-> issues[i].path, message |-> issues[i].message]]

(***************************************************************************)
(* SchemaValidator, first declaration (validator.ts lines 4-135): the      *)
(* conversion differs from the second in that "integer" is not a case of   *)
(* convertToZod (it falls to the default, z.unknown()), createArraySchema  *)
(* converts schema.items whether it is there or not, createStringSchema    *)
(* knows format, createNumberSchema knows multipleOf and not integer, and  *)
(* the constraints are tested with != null.                                *)
(***************************************************************************)
createNumberSchema_First(schema) ==
    LET min == Field(schema, "minimum")
        max == Field(schema, "maximum")
        multipleOf == Field(schema, "multipleOf")
    IN ZNumber((IF ~IsNullish(min) THEN <<(<<"min", min>>)>> ELSE <<>>)
               \o (IF ~IsNullish(max) THEN <<(<<"max", max>>)>> ELSE <<>>)
               \o (IF ~IsNullish(multipleOf)
                   THEN <<(<<"multipleOf", multipleOf>>)>> ELSE <<>>))

createStringSchema_First(schema) ==
    LET min == Field(schema, "minLength")
        max == Field(schema, "maxLength")
        pattern == Field(schema, "pattern")
        format == Field(schema, "format")
        enum == Field(schema, "enum")
    IN IF Truthy(pattern) /\ ~ValidRegExp(pattern.s) THEN Thrown("SyntaxError")
       ELSE IF Truthy(enum) THEN ZEnum(enum.e)
       ELSE ZString((IF ~IsNullish(min) THEN <<(<<"min", min>>)>> ELSE <<>>)
                    \o (IF ~IsNullish(max) THEN <<(<<"max", max>>)>> ELSE <<>>)
                    \o (IF Truthy(pattern) THEN <<(<<"regex", pattern>>)>> ELSE <<>>)
                    \o (IF format = Str("email") THEN <<(<<"email", Null>>)>> ELSE <<>>)
                    \o (IF format = Str("url") THEN <<(<<"url", Null>>)>> ELSE <<>>))

RECURSIVE convertToZod_First(_)
RECURSIVE ConvertProperties_First(_, _, _)

\* The loop of createObjectSchema over Object.entries(schema.properties || {}).
ConvertProperties_First(props, required, i) ==
    IF i > Len(props.kv) THEN ZObject(<<>>)
    ELSE LET key == props.kv[i][1]
             fieldSchema == convertToZod_First(props.kv[i][2])
             rest == ConvertProperties_First(props, required, i + 1)
             field == IF Includes(required, key) THEN fieldSchema
                      ELSE ZOptional(fieldSchema)
         IN IF IsThrown(fieldSchema) THEN fieldSchema
            ELSE IF IsThrown(rest) THEN rest
            ELSE ZObject(<<(<<key, field>>)>> \o rest.shape)

createObjectSchema_First(schema) ==
    IF Truthy(Field(schema, "properties")) /\ IsObj(Field(schema, "properties"))
    THEN ConvertProperties_First(Field(schema, "properties"), Field(schema, "required"), 1)
    ELSE ZObject(<<>>)

\* schema.items is converted unconditionally: without items, convertToZod
\* reads the type of undefined and throws.
createArraySchema_First(schema) ==
    LET itemSchema == convertToZod_First(Field(schema, "items"))
    IN IF IsThrown(itemSchema) THEN itemSchema ELSE ZArray(itemSchema)

convertToZod_First(schema) ==
    IF IsNullish(schema) THEN Thrown("TypeError")
    ELSE LET type == Field(schema, "type")
         IN CASE type = Str("object") -> createObjectSchema_First(schema)
              [] type = Str("array") -> createArraySchema_First(schema)
              [] type = Str("string") -> createStringSchema_First(schema)
              [] type = Str("number") -> createNumberSchema_First(schema)
              [] type = Str("boolean") -> ZBoolean
              [] type = Str("null") -> ZNull
              [] OTHER -> ZUnknown

(***************************************************************************)
(* The inputs the calls are explored with.                                 *)
(***************************************************************************)
\* One entry of an object.
Field1(k, v) == <<(<<k, v>>)>>

\* Configuration fragments.
FragValues ==
    {Num(1), Num(2), Null, Arr(<<Num(1), Num(2)>>), Arr(<<Num(3)>>),
     Obj(Field1("x", Num(1))), Obj(Field1("y", Num(2))),
     Obj(Field1("x", Arr(<<Num(3)>>))), Obj(Field1("y", Null))}
Fragments ==
    {Obj(<<>>)}
    \cup {Obj(Field1(k, v)) : k \in {"a", "c"}, v \in FragValues}
    \cup {Obj(Field1("a", v) \o Field1("c", w)) :
              v \in {Num(1), Null}, w \in {Arr(<<Num(3)>>), Obj(Field1("y", Num(2)))}}

\* What the configuration file may hold (the value unconfig.load() hands back).
LoadedConfigs ==
    {Obj(<<>>),
     Obj(Field1("output", Obj(Field1("format", Str("json"))))),
     Obj(Field1("output", Obj(Field1("path", Str("x.json"))))),
     Obj(Field1("output", Obj(Field1("format", Str("xml"))))),
     Obj(Field1("schema", Obj(Field1("coerce", Bool(FALSE))))),
     Obj(Field1("schema", Str("strict"))),
     Obj(Field1("name", Str("app")) \o Field1("extra", Arr(<<Num(1)>>))),
     Obj(Field1("plugins", Obj(Field1("vite", Obj(Field1("enabled", Bool(TRUE)))))))}

\* What the command line, the environment and the configuration file hold
\* when load runs.
Supplies ==
    [args : {Obj(<<>>), Obj(Field1("name", Str("cli")))},
     env : {Obj(<<>>), Obj(Field1("name", Str("env")))},
     file : LoadedConfigs]

\* Schemas.
TypeOnly(type) == Obj(Field1("type", Str(type)))
RequiredXY == Arr(<<Str("x"), Str("y")>>)
PropsXY(tx, ty) == Obj(Field1("x", TypeOnly(tx)) \o Field1("y", TypeOnly(ty)))
PropsYX(tx, ty) == Obj(Field1("y", TypeOnly(ty)) \o Field1("x", TypeOnly(tx)))
ObjectSchema(props) ==
    Obj(Field1("type", Str("object")) \o Field1("properties", props)
        \o Field1("required", RequiredXY))
WellFormedSchemas ==
    {ObjectSchema(PropsXY("string", "number")),
     ObjectSchema(PropsYX("string", "number")),
     ObjectSchema(PropsXY("any", "number")),
     Obj(Field1("type", Str("string")) \o Field1("minLength", Num(2))
         \o Field1("pattern", Str("^a"))),
     Obj(Field1("type", Str("array")) \o Field1("items", TypeOnly("number"))),
     TypeOnly("number"),
     TypeOnly("array"),
     Obj(Field1("type", Str("number")) \o Field1("multipleOf", Num(2))),
     Obj(Field1("type", Str("integer")) \o Field1("minimum", Num(1))
         \o Field1("maximum", Num(3))),
     Obj(Field1("type", Str("string")) \o Field1("enum", Arr(<<Str("a"), Str("bcd")>>))
         \o Field1("minLength", Num(2)) \o Field1("pattern", Str("^a"))),
     Obj(Field1("type", Str("object")) \o Field1("properties", Obj(Field1("x", TypeOnly("string"))))
         \o Field1("additionalProperties", Bool(FALSE))),
     Obj(Field1("type", Str("object"))
         \o Field1("properties",
                   Obj(Field1("x", ObjectSchema(PropsXY("string", "number")))
                       \o Field1("y", Obj(Field1("type", Str("array"))
                                          \o Field1("items", TypeOnly("number"))))))
         \o Field1("required", RequiredXY))}
MalformedSchemas ==
    {Obj(Field1("type", Str("object")) \o Field1("properties", Obj(Field1("x", Null)))),
     Obj(Field1("type", Str("string")) \o Field1("pattern", Str("(")))}
\* Schemas with a bound that is a number and not finite.
NonFiniteSchemas ==
    {Obj(Field1("type", Str("number")) \o Field1("minimum", Infinity)),
     Obj(Field1("type", Str("number")) \o Field1("minimum", NaN))}
Schemas == WellFormedSchemas \cup MalformedSchemas \cup NonFiniteSchemas

\* Values to validate.
DataValues ==
    {Obj(<<>>),
     Obj(Field1("x", Str("s"))),
     Obj(Field1("x", Str("s")) \o Field1("y", Num(1))),
     Obj(Field1("y", Num(1)) \o Field1("x", Str("s"))),
     Obj(Field1("x", Num(1)) \o Field1("y", Str("s"))),
     Obj(Field1("y", Str("s")) \o Field1("x", Num(1))),
     Obj(Field1("x", Str("s")) \o Field1("y", Num(1)) \o Field1("z", Num(1))),
     Str("ab"), Str("b"), Num(42), Half(3), Null,
     Arr(<<Num(1), Str("a")>>),
     Str("42"), Str("a"), Str("bcd"), Num(1), Num(3),
     Obj(Field1("x", Obj(Field1("x", Num(1)) \o Field1("y", Str("s"))))
         \o Field1("y", Arr(<<Num(1), Str("a")>>))),
     Obj(Field1("y", Arr(<<Num(1), Str("a")>>))
         \o Field1("x", Obj(Field1("y", Str("s")) \o Field1("x", Num(1)))))}

\* The options argument of validate: left out ({} by default) or asking for
\* coercion.
OptionValues == {Obj(<<>>), Obj(Field1("coerce", Bool(TRUE)))}

\* The values a schema is validated with: those of the kind it asks for and
\* one or two of another kind.
DataFor(schema) ==
    LET type == Get(schema, "type")
    IN CASE type = Str("object") -> {d \in DataValues : IsObj(d)} \cup {Null}
         [] type = Str("string") -> {d \in DataValues : d.t = "string"} \cup {Num(42)}
         [] type = Str("array") -> {d \in DataValues : IsArr(d)} \cup {Str("ab")}
         [] OTHER -> {d \in DataValues : d.t = "number"} \cup {Str("42"), Null}
\* The calls of validate explored: every schema with its values and the
\* default options, and a string handed to a numeric schema with coercion
\* asked for as well.
ValidateInputs ==
    {input \in [data : DataValues, schema : Schemas, options : OptionValues] :
        /\ input.data \in DataFor(input.schema)
        /\ input.options # Obj(<<>>)
             => /\ input.data.t = "string"
                /\ Get(input.schema, "type") \in {Str("number"), Str("integer")}}

Plugin(name, hookEntries) == [name |-> name, hooks |-> hookEntries]

\* Plugins.  "onLoad" of Alpha and Echo is the same function.
Plugins ==
    {Plugin("alpha", Field1("onLoad", "f1")),
     Plugin("beta", Field1("onLoad", "f2") \o Field1("onSave", "f1")),
     Plugin("beta", Field1("onLoad", "f3")),
     Plugin("echo", Field1("onLoad", "f1")),
     Plugin("", Field1("onLoad", "f2")),
     Plugin("bare", <<>>)}
PluginNames == {"alpha", "beta", "echo", "bare", "ghost"}
HookNames == {"onLoad", "onSave"}
HookFns == {"f1", "f2", "f3"}

(***************************************************************************)
(* SchemaValidator: the cache and validate().                              *)
(***************************************************************************)
EmptyMap == [k \in {} |-> Undef]
MapPut(m, k, v) == [x \in DOMAIN m \cup {k} |-> IF x = k THEN v ELSE m[x]]

\* The ValidationResult validate returns for a zod schema and a value.
ValidationResult(zodSchema, data) ==
    LET result == safeParse(zodSchema, data)
    IN IF result.success
       THEN [success |-> TRUE, errors |-> <<>>, data |-> result.data]
       ELSE [success |-> FALSE, errors |-> formatZodErrors(result.issues),
             data |-> Undef]

\* What the calls below compute for the inputs above, worked out once: the
\* cache key of each schema, its conversion, and what each converted
\* schema answers for each value.
CacheKeyOf == [schema \in Schemas |-> stringify(schema)]
ConvertedOf ==
    [def \in {1, 2}, schema \in Schemas |->
        IF def = 1 THEN convertToZod_First(schema) ELSE convertToZod(schema)]
Converted ==
    {ConvertedOf[def, schema] : def \in {1, 2}, schema \in Schemas}
        \ {Thrown("TypeError"), Thrown("SyntaxError")}
ResultOf == [zodSchema \in Converted, data \in DataValues |-> ValidationResult(zodSchema, data)]

\* getOrCreateZodSchema without its cache.has test: every call converts and
\* stores again.
getOrCreateZodSchema_NoLookup(schema) ==
    LET zodSchema == ConvertedOf[definition, schema]
    IN [zodSchema |-> zodSchema,
        cache |-> IF IsThrown(zodSchema) THEN cache
                  ELSE MapPut(cache, CacheKeyOf[schema], zodSchema),
        cacheKey |-> CacheKeyOf[schema], converted |-> ~IsThrown(zodSchema)]

\* getOrCreateZodSchema: the schema stored under JSON.stringify(schema), or
\* a new conversion, stored unless it threw.  `converted` says that a
\* conversion ran to its end.
getOrCreateZodSchema(schema) ==
    LET cacheKey == CacheKeyOf[schema]
    IN IF cacheKey \in DOMAIN cache
       THEN [zodSchema |-> cache[cacheKey], cache |-> cache,
             cacheKey |-> cacheKey, converted |-> FALSE]
       ELSE LET zodSchema == ConvertedOf[definition, schema]
            IN IF IsThrown(zodSchema)
               THEN [zodSchema |-> zodSchema, cache |-> cache,
                     cacheKey |-> cacheKey, converted |-> FALSE]
               ELSE [zodSchema |-> zodSchema,
                     cache |-> MapPut(cache, cacheKey, zodSchema),
                     cacheKey |-> cacheKey, converted |-> TRUE]

NoCall ==
    [outcome |-> "none", data |-> Undef, schema |-> Undef, options |-> Undef,
     cacheKey |-> "", hit |-> FALSE,
     result |-> [success |-> TRUE, errors |-> <<>>, data |-> Undef]]

\* A catch that returns a failed result without an error.
CaughtResult_NoErrors(error) ==
    [success |-> FALSE, errors |-> <<>>, data |-> Undef]

\* The catch of the first declaration's validate: whatever was thrown comes
\* back as a failed result with the error's message as its one error.
CaughtResult(error) ==
    [success |-> FALSE, errors |-> <<[message |-> error]>>, data |-> Undef]

\* validate with zodSchema.parse in place of safeParse and a catch that
\* throws every error again: data that fails the schema throws.
validateOutcome_ParseThrows(zodSchema, data) ==
    IF IsThrown(zodSchema) \/ ~ResultOf[zodSchema, data].success
    THEN "thrown" ELSE "returned"

\* The try/catch of validate.  Second declaration: an error thrown while the
\* zod schema is made is not a ZodError and is thrown again.  First
\* declaration: every error is caught and returned.  safeParse itself
\* throws nothing, so everything else comes back as a result.
validateOutcome(zodSchema, data) ==
    IF IsThrown(zodSchema) /\ definition = 2 THEN "thrown" ELSE "returned"

\* validate(data, schema, options); options is never read.
validate(data, schema, options) ==
    LET got == getOrCreateZodSchema(schema)
    IN /\ Cardinality(DOMAIN got.cache) <= MaxCached
       /\ cache' = got.cache
       /\ conversions' =
            IF got.converted
            THEN MapPut(conversions, got.cacheKey,
                        IF got.cacheKey \in DOMAIN conversions
                        THEN conversions[got.cacheKey] + 1 ELSE 1)
            ELSE conversions
       /\ vCall' =
            IF validateOutcome(got.zodSchema, data) = "thrown"
            THEN [NoCall EXCEPT !.outcome = "thrown", !.data = data,
                                !.schema = schema, !.options = options,
                                !.cacheKey = got.cacheKey]
            ELSE [outcome |-> "returned", data |-> data, schema |-> schema,
                  options |-> options, cacheKey |-> got.cacheKey,
                  hit |-> got.cacheKey \in DOMAIN cache,
                  result |-> IF IsThrown(got.zodSchema)
                             THEN CaughtResult(got.zodSchema.error)
                             ELSE ResultOf[got.zodSchema, data]]
       /\ definition' = definition
       /\ UNCHANGED <<cfgVars, plgVars, coreVars>>

(***************************************************************************)
(* ConfigManager.                                                          *)
(***************************************************************************)
\* configSchema: every key optional, unknown keys stripped.
configSchema ==
    ZObject(
        Field1("name", ZOptional(ZString(<<>>)))
        \o Field1("version", ZOptional(ZString(<<>>)))
        \o Field1("plugins", ZOptional(ZRecord(ZObject(
               Field1("enabled", ZOptional(ZBoolean))
               \o Field1("options", ZOptional(ZRecord(ZUnknown)))))))
        \o Field1("schema", ZOptional(ZObject(
               Field1("validation", ZOptional(ZBoolean))
               \o Field1("coerce", ZOptional(ZBoolean))
               \o Field1("source", ZOptional(ZString(<<>>))))))
        \o Field1("output", ZOptional(ZObject(
               Field1("format", ZOptional(ZEnum(<<Str("ts"), Str("js"), Str("json"), Str("yaml")>>)))
               \o Field1("path", ZOptional(ZString(<<>>)))))))

getDefaults ==
    Obj(Field1("schema", Obj(Field1("validation", Bool(TRUE))
                             \o Field1("coerce", Bool(TRUE))))
        \o Field1("output", Obj(Field1("format", Str("ts")))))

\* setupDefaultSources: the default sources in the order the code lists them.
setupDefaultSources ==
    <<Obj(Field1("type", Str("env")) \o Field1("prefix", Str("BITX_"))),
      Obj(Field1("type", Str("args")) \o Field1("prefix", Str("--"))),
      Obj(Field1("type", Str("file"))
          \o Field1("patterns", Arr(<<Str("bitx.config.*")>>)))>>

\* The sources load hands to unconfig: of each source its patterns (as
\* files) and its defaults (as default), nothing else.
unconfigSources(sources) ==
    [i \in 1..Len(sources) |->
        [files |-> Get(sources[i], "patterns"), default |-> Get(sources[i], "defaults")]]

\* unconfig.load() on these sources, with `supplied` what the command line,
\* the environment and the configuration file hold: a source is read
\* through its files, so a source without files yields nothing and the
\* value handed back is the content of the first source that has some.
unconfigLoad(sources, supplied) ==
    LET HasFiles(source) == source.files # Undef
    IN IF SelectSeq(sources, HasFiles) = <<>> THEN Undef ELSE supplied.file

NoCfgCall ==
    [op |-> "none", arg |-> Undef, supplied |-> Undef, prev |-> Undef, outcome |-> "none"]

\* merge(config): this.config = defu(config, this.config).
merge(cfg) ==
    /\ cfgOps < MaxCfgOps
    /\ config' = defu(cfg, config)
    /\ cfgCall' = [op |-> "merge", arg |-> cfg, supplied |-> Undef, prev |-> config,
                   outcome |-> "returned"]
    /\ cfgOps' = cfgOps + 1
    /\ UNCHANGED <<valVars, plgVars, coreVars>>

\* load that stores whatever was loaded, valid or not.
load_IgnoresValidation(supplied, rejects) ==
    LET loaded == unconfigLoad(unconfigSources(setupDefaultSources), supplied)
    IN /\ cfgOps < MaxCfgOps
       /\ cfgOps' = cfgOps + 1
       /\ IF rejects
          THEN /\ config' = config
               /\ cfgCall' = [op |-> "load", arg |-> loaded, supplied |-> supplied,
                              prev |-> config, outcome |-> "thrown"]
          ELSE /\ config' = defu(loaded, getDefaults)
               /\ cfgCall' = [op |-> "load", arg |-> loaded, supplied |-> supplied,
                              prev |-> config, outcome |-> "returned"]
       /\ UNCHANGED <<valVars, plgVars, coreVars>>

\* load that stores the merged value before it validates.
load_StoresFirst(supplied, rejects) ==
    LET loaded == unconfigLoad(unconfigSources(setupDefaultSources), supplied)
    IN /\ cfgOps < MaxCfgOps
       /\ cfgOps' = cfgOps + 1
       /\ IF rejects
          THEN /\ config' = config
               /\ cfgCall' = [op |-> "load", arg |-> loaded, supplied |-> supplied,
                              prev |-> config, outcome |-> "thrown"]
          ELSE /\ config' = defu(loaded, getDefaults)
               /\ cfgCall' = [op |-> "load", arg |-> loaded, supplied |-> supplied,
                              prev |-> config,
                              outcome |-> IF safeParse(configSchema, loaded).success
                                          THEN "returned" ELSE "thrown"]
       /\ UNCHANGED <<valVars, plgVars, coreVars>>

\* load(): unconfig.load() hands back the loaded value or rejects; a value
\* that fails configSchema makes load throw; otherwise the loaded value (not
\* the parsed one) is merged over getDefaults() and stored.
load(supplied, rejects) ==
    LET loaded == unconfigLoad(unconfigSources(setupDefaultSources), supplied)
    IN /\ cfgOps < MaxCfgOps
       /\ cfgOps' = cfgOps + 1
       /\ IF rejects \/ ~safeParse(configSchema, loaded).success
          THEN /\ config' = config
               /\ cfgCall' = [op |-> "load", arg |-> loaded, supplied |-> supplied,
                              prev |-> config, outcome |-> "thrown"]
          ELSE /\ config' = defu(loaded, getDefaults)
               /\ cfgCall' = [op |-> "load", arg |-> loaded, supplied |-> supplied,
                              prev |-> config, outcome |-> "returned"]
       /\ UNCHANGED <<valVars, plgVars, coreVars>>

(***************************************************************************)
(* PluginSystem.  A plugin is its name and the entries of its hooks object *)
(* (<<hook name, hook function>>, in Object.entries order).  hooks maps a  *)
(* hook name to the elements of its Set in insertion order.  callHook      *)
(* suspends at each `await hook(context)`; other calls may run meanwhile,  *)
(* and its for-of loop reads the live Set: hookCall.idx counts the         *)
(* elements of the Set the loop has passed, hookCall.detached says that    *)
(* the Set it iterates was emptied and dropped from the map.               *)
(***************************************************************************)
IndexOf(seq, x) ==
    IF \E i \in 1..Len(seq) : seq[i] = x
    THEN CHOOSE i \in 1..Len(seq) : seq[i] = x
    ELSE 0
Without(seq, p) == [i \in 1..(Len(seq) - 1) |-> IF i < p THEN seq[i] ELSE seq[i + 1]]
MapDrop(m, k) == [x \in DOMAIN m \ {k} |-> m[x]]

\* addHook(name, hook) on a hooks map: Set.add appends a new element and
\* leaves an element already in the Set where it is.
addHookTo(hs, name, hook) ==
    LET set == IF name \in DOMAIN hs THEN hs[name] ELSE <<>>
    IN MapPut(hs, name, IF IndexOf(set, hook) = 0 THEN Append(set, hook) ELSE set)

\* removeHook that deletes nothing.
removeHookFrom_Keeps(st, name, hook) == st

\* removeHook without its `hooks.size === 0` test: the emptied Set stays in
\* the map.
removeHookFrom_KeepsEmptySet(st, name, hook) ==
    IF name \notin DOMAIN st.hooks THEN st
    ELSE LET set == st.hooks[name]
             p == IndexOf(set, hook)
             left == IF p = 0 THEN set ELSE Without(set, p)
             iterating == /\ st.call.status = "awaiting"
                          /\ st.call.name = name
                          /\ ~st.call.detached
             call == IF ~iterating THEN st.call
                     ELSE [st.call EXCEPT
                             !.idx = IF p # 0 /\ p <= @ THEN @ - 1 ELSE @]
         IN [hooks |-> MapPut(st.hooks, name, left), call |-> call]

\* removeHook(name, hook) on st = [hooks, call]: Set.delete, then the Set is
\* dropped from the map when it is empty.  The loop of a callHook in flight
\* on that Set moves with the deletion.
removeHookFrom(st, name, hook) ==
    IF name \notin DOMAIN st.hooks THEN st
    ELSE LET set == st.hooks[name]
             p == IndexOf(set, hook)
             left == IF p = 0 THEN set ELSE Without(set, p)
             iterating == /\ st.call.status = "awaiting"
                          /\ st.call.name = name
                          /\ ~st.call.detached
             call == IF ~iterating THEN st.call
                     ELSE [st.call EXCEPT
                             !.idx = IF p # 0 /\ p <= @ THEN @ - 1 ELSE @,
                             !.detached = (left = <<>>)]
         IN [hooks |-> IF left = <<>> THEN MapDrop(st.hooks, name)
                       ELSE MapPut(st.hooks, name, left),
             call |-> call]

RECURSIVE AddHooks(_, _, _)
AddHooks(hs, entries, i) ==
    IF i > Len(entries) THEN hs
    ELSE AddHooks(addHookTo(hs, entries[i][1], entries[i][2]), entries, i + 1)

RECURSIVE RemoveHooks(_, _, _)
RemoveHooks(st, entries, i) ==
    IF i > Len(entries) THEN st
    ELSE RemoveHooks(removeHookFrom(st, entries[i][1], entries[i][2]), entries, i + 1)

\* The registrations of a plugin, for the log: <<owner, hook name, hook>>.
Registrations(owner, entries) ==
    [i \in 1..Len(entries) |-> <<owner, entries[i][1], entries[i][2]>>]

\* A change of the registrations after a callHook has started is noted on it.
Touch(call) == IF call.status = "idle" THEN call ELSE [call EXCEPT !.touched = TRUE]

NoPCall == [op |-> "none", name |-> "", plugin |-> Plugin("", <<>>), outcome |-> "none"]
IdleCall ==
    [status |-> "idle", name |-> "", idx |-> 0, trace |-> <<>>, detached |-> FALSE,
     error |-> "", touched |-> FALSE]

\* register without its registry.has test: a plugin of a registered name
\* overwrites the one stored.
register_Overwrites(plugin) ==
    /\ pOps < MaxPluginOps
    /\ pOps' = pOps + 1
    /\ IF plugin.name = ""
       THEN /\ pCall' = [op |-> "register", name |-> plugin.name, plugin |-> plugin,
                         outcome |-> "thrown"]
            /\ UNCHANGED <<registry, hooks, hookCall, regLog>>
       ELSE /\ registry' = MapPut(registry, plugin.name, plugin)
            /\ hooks' = AddHooks(hooks, plugin.hooks, 1)
            /\ regLog' = regLog \o Registrations(plugin.name, plugin.hooks)
            /\ hookCall' = Touch(hookCall)
            /\ pCall' = [op |-> "register", name |-> plugin.name, plugin |-> plugin,
                         outcome |-> "returned"]
    /\ UNCHANGED <<cfgVars, valVars, coreVars>>

\* register that adds the plugin's hooks before it tests the name: a call
\* rejected for a registered name has added its hooks.
register_HooksFirst(plugin) ==
    /\ pOps < MaxPluginOps
    /\ pOps' = pOps + 1
    /\ IF plugin.name = ""
       THEN /\ pCall' = [op |-> "register", name |-> plugin.name, plugin |-> plugin,
                         outcome |-> "thrown"]
            /\ UNCHANGED <<registry, hooks, hookCall, regLog>>
       ELSE IF plugin.name \in DOMAIN registry
       THEN /\ hooks' = AddHooks(hooks, plugin.hooks, 1)
            /\ hookCall' = Touch(hookCall)
            /\ pCall' = [op |-> "register", name |-> plugin.name, plugin |-> plugin,
                         outcome |-> "thrown"]
            /\ UNCHANGED <<registry, regLog>>
       ELSE /\ registry' = MapPut(registry, plugin.name, plugin)
            /\ hooks' = AddHooks(hooks, plugin.hooks, 1)
            /\ regLog' = regLog \o Registrations(plugin.name, plugin.hooks)
            /\ hookCall' = Touch(hookCall)
            /\ pCall' = [op |-> "register", name |-> plugin.name, plugin |-> plugin,
                         outcome |-> "returned"]
    /\ UNCHANGED <<cfgVars, valVars, coreVars>>

\* register(plugin)
register(plugin) ==
    /\ pOps < MaxPluginOps
    /\ pOps' = pOps + 1
    /\ IF plugin.name = "" \/ plugin.name \in DOMAIN registry
       THEN /\ pCall' = [op |-> "register", name |-> plugin.name, plugin |-> plugin,
                         outcome |-> "thrown"]
            /\ UNCHANGED <<registry, hooks, hookCall, regLog>>
       ELSE /\ registry' = MapPut(registry, plugin.name, plugin)
            /\ hooks' = AddHooks(hooks, plugin.hooks, 1)
            /\ regLog' = regLog \o Registrations(plugin.name, plugin.hooks)
            /\ hookCall' = Touch(hookCall)
            /\ pCall' = [op |-> "register", name |-> plugin.name, plugin |-> plugin,
                         outcome |-> "returned"]
    /\ UNCHANGED <<cfgVars, valVars, coreVars>>

\* unregister(name)
unregister(name) ==
    /\ pOps < MaxPluginOps
    /\ pOps' = pOps + 1
    /\ IF name \notin DOMAIN registry
       THEN /\ pCall' = [op |-> "unregister", name |-> name, plugin |-> Plugin("", <<>>),
                         outcome |-> "thrown"]
            /\ UNCHANGED <<registry, hooks, hookCall, regLog>>
       ELSE LET plugin == registry[name]
                st == RemoveHooks([hooks |-> hooks, call |-> hookCall], plugin.hooks, 1)
                NotOwned(r) == r[1] # name
            IN /\ hooks' = st.hooks
               /\ hookCall' = Touch(st.call)
               /\ registry' = MapDrop(registry, name)
               /\ regLog' = SelectSeq(regLog, NotOwned)
               /\ pCall' = [op |-> "unregister", name |-> name, plugin |-> plugin,
                            outcome |-> "returned"]
    /\ UNCHANGED <<cfgVars, valVars, coreVars>>

\* addHook(name, hook), called directly.
addHook(name, hook) ==
    /\ pOps < MaxPluginOps
    /\ pOps' = pOps + 1
    /\ hooks' = addHookTo(hooks, name, hook)
    /\ regLog' = Append(regLog, <<"", name, hook>>)
    /\ hookCall' = Touch(hookCall)
    /\ pCall' = [op |-> "addHook", name |-> name, plugin |-> Plugin("", <<(<<name, hook>>)>>),
                 outcome |-> "returned"]
    /\ UNCHANGED <<registry, cfgVars, valVars, coreVars>>

\* removeHook(name, hook), called directly.
removeHook(name, hook) ==
    /\ pOps < MaxPluginOps
    /\ pOps' = pOps + 1
    /\ LET st == removeHookFrom([hooks |-> hooks, call |-> hookCall], name, hook)
           Others(r) == ~(r[2] = name /\ r[3] = hook)
       IN /\ hooks' = st.hooks
          /\ hookCall' = Touch(st.call)
          /\ regLog' = SelectSeq(regLog, Others)
    /\ pCall' = [op |-> "removeHook", name |-> name, plugin |-> Plugin("", <<(<<name, hook>>)>>),
                 outcome |-> "returned"]
    /\ UNCHANGED <<registry, cfgVars, valVars, coreVars>>

\* The for-of loop of callHook from its current place: the next element of
\* the live Set is invoked and awaited, or the loop ends and callHook
\* resolves.
LoopStep(call) ==
    LET set == IF call.detached \/ call.name \notin DOMAIN hooks THEN <<>>
               ELSE hooks[call.name]
    IN IF call.idx < Len(set)
       THEN [call EXCEPT !.status = "awaiting", !.idx = @ + 1,
                         !.trace = Append(@, set[call.idx + 1])]
       ELSE [call EXCEPT !.status = "resolved"]

\* callHook(name, context) up to its first await (or to its end).
callHook(name) ==
    /\ hookCall.status # "awaiting"
    /\ pOps < MaxPluginOps
    /\ pOps' = pOps + 1
    /\ hookCall' = IF name \notin DOMAIN hooks
                   THEN [IdleCall EXCEPT !.status = "resolved", !.name = name]
                   ELSE LoopStep([IdleCall EXCEPT !.name = name])
    /\ UNCHANGED <<registry, hooks, regLog, pCall, cfgVars, valVars, coreVars>>

\* callHook that logs a hook's error and goes on with the next hook.
hookSettles_BestEffort(throws) ==
    /\ hookCall.status = "awaiting"
    /\ hookCall' = IF throws
                   THEN LoopStep([hookCall EXCEPT
                                    !.error = hookCall.trace[Len(hookCall.trace)]])
                   ELSE LoopStep(hookCall)
    /\ UNCHANGED <<registry, hooks, regLog, pCall, pOps, cfgVars, valVars, coreVars>>

\* The awaited hook settles: callHook goes on with the loop, or, when the
\* hook threw or rejected, throws that error.
hookSettles(throws) ==
    /\ hookCall.status = "awaiting"
    /\ hookCall' = IF throws
                   THEN [hookCall EXCEPT !.status = "rejected",
                                         !.error = hookCall.trace[Len(hookCall.trace)]]
                   ELSE LoopStep(hookCall)
    /\ UNCHANGED <<registry, hooks, regLog, pCall, pOps, cfgVars, valVars, coreVars>>

(***************************************************************************)
(* BitXCore: the schema cache with loadSchema, and validate.  loadSchema   *)
(* suspends at `await plugin.loadSchema()`; other calls run meanwhile.     *)
(* The plugins it looks through are those of the PluginSystem's registry.  *)
(***************************************************************************)
\* The schema types asked for, and what a plugin's loadSchema resolves with.
SchemaTypes == {"alpha", "beta", "vite"}
LoadedSchemas == {TypeOnly("object"), TypeOnly("string")}
\* The validate calls made on the core: an object schema, an array schema
\* without items and a schema with a property that is no schema, each with
\* its values.
CoreInputs ==
    {input \in ValidateInputs :
        /\ input.options = Obj(<<>>)
        /\ input.schema \in {ObjectSchema(PropsXY("string", "number")), TypeOnly("array"),
                              Obj(Field1("type", Str("object"))
                                  \o Field1("properties", Obj(Field1("x", Null))))}}
\* The plugins the core's plugin system is given.
CorePlugins == {Plugin("alpha", Field1("onLoad", "f1")), Plugin("beta", Field1("onLoad", "f3"))}

\* name.includes(part), name.endsWith(suffix)
StringIncludes(name, part) ==
    \E i \in 1..(Len(name) - Len(part) + 1) : SubSeq(name, i, i + Len(part) - 1) = part
EndsWith(name, suffix) ==
    /\ Len(suffix) <= Len(name)
    /\ SubSeq(name, Len(name) - Len(suffix) + 1, Len(name)) = suffix
\* The test of the find in loadSchema.
CanHandle(name, type) == StringIncludes(name, type) \/ EndsWith(name, "-" \o type)

NoError == [name |-> "", header |-> "", lines |-> <<>>]
NoCoreCall ==
    [op |-> "none", type |-> "", schema |-> Undef, outcome |-> "none", value |-> Undef,
     hit |-> FALSE, result |-> Undef, error |-> NoError]

\* loadSchema(type) up to its await, or to its end when the type is cached
\* or no plugin handles it.  The find takes the first plugin of the registry
\* that passes the test; the registry here keeps no order, so any plugin
\* that passes may be the one.
loadSchema(type) ==
    /\ coreOps < MaxCoreOps
    /\ coreOps' = coreOps + 1
    /\ IF type \in DOMAIN schemas
       THEN /\ coreCall' = [NoCoreCall EXCEPT !.op = "loadSchema", !.type = type,
                                              !.outcome = "returned",
                                              !.value = schemas[type], !.hit = TRUE]
            /\ UNCHANGED <<schemas, loads, invoked>>
       ELSE IF \A name \in DOMAIN registry : ~CanHandle(name, type)
       THEN /\ coreCall' = [NoCoreCall EXCEPT
                              !.op = "loadSchema", !.type = type, !.outcome = "thrown",
                              !.error = [name |-> "Error",
                                         header |-> "No plugin found for schema type: " \o type,
                                         lines |-> <<>>]]
            /\ UNCHANGED <<schemas, loads, invoked>>
       ELSE \E name \in {n \in DOMAIN registry : CanHandle(n, type)} :
               /\ loads' = Append(loads, [type |-> type, plugin |-> name])
               /\ invoked' = MapPut(invoked, type,
                                    IF type \in DOMAIN invoked THEN invoked[type] + 1 ELSE 1)
               /\ UNCHANGED <<schemas, coreCall>>
    /\ UNCHANGED <<cfgVars, valVars, plgVars>>

\* The plugin.loadSchema() awaited by the i-th suspended call settles: the
\* schema is stored and returned, or the rejection is logged and thrown
\* again.
loadSchemaSettles(i, schema, fails) ==
    /\ i \in 1..Len(loads)
    /\ loads' = Without(loads, i)
    /\ IF fails
       THEN /\ coreCall' = [NoCoreCall EXCEPT
                              !.op = "loadSchema", !.type = loads[i].type,
                              !.outcome = "thrown",
                              !.error = [name |-> "Error", header |-> "loadSchema rejected",
                                         lines |-> <<>>]]
            /\ UNCHANGED schemas
       ELSE /\ schemas' = MapPut(schemas, loads[i].type, schema)
            /\ coreCall' = [NoCoreCall EXCEPT !.op = "loadSchema", !.type = loads[i].type,
                                              !.outcome = "returned", !.value = schema]
    /\ UNCHANGED <<invoked, coreOps, cfgVars, valVars, plgVars>>

\* path.join('.')
RECURSIVE JoinPath(_, _)
JoinPath(path, i) ==
    IF i > Len(path) THEN ""
    ELSE (IF i = 1 THEN "" ELSE ".")
         \o (IF "key" \in DOMAIN path[i] THEN path[i].key ELSE ToString(path[i].idx))
         \o JoinPath(path, i + 1)

\* The error validate makes of a failed result: one line per error of the
\* result, `- path: message`, the lines joined with newlines under the
\* header.  An error without a path has no path.join: a TypeError.
ValidationFailed(errors) ==
    IF \E i \in 1..Len(errors) : "path" \notin DOMAIN errors[i]
    THEN [name |-> "TypeError",
          header |-> "Cannot read properties of undefined (reading 'join')",
          lines |-> <<>>]
    ELSE [name |-> "Error", header |-> "Validation failed:",
          lines |-> [i \in 1..Len(errors) |->
                       "- " \o JoinPath(errors[i].path, 1) \o ": " \o errors[i].message]]

\* validate(config, schema): a new SchemaValidator validates; what it throws
\* and the error made of a failed result are logged and thrown again.
coreValidate(data, schema) ==
    /\ coreOps < MaxCoreOps
    /\ coreOps' = coreOps + 1
    /\ LET zodSchema == ConvertedOf[definition, schema]
           result == IF IsThrown(zodSchema) THEN CaughtResult(zodSchema.error)
                     ELSE ResultOf[zodSchema, data]
           call == [NoCoreCall EXCEPT !.op = "validate", !.value = data, !.schema = schema]
       IN coreCall' =
            IF validateOutcome(zodSchema, data) = "thrown"
            THEN [call EXCEPT !.outcome = "thrown",
                              !.error = [name |-> zodSchema.error, header |-> "",
                                         lines |-> <<>>]]
            ELSE IF result.success
            THEN [call EXCEPT !.outcome = "returned", !.result = result]
            ELSE [call EXCEPT !.outcome = "thrown", !.result = result,
                              !.error = ValidationFailed(result.errors)]
    /\ UNCHANGED <<schemas, loads, invoked, cfgVars, valVars, plgVars>>

(***************************************************************************)
(* The specifications: one per component, the other components at rest.   *)
(***************************************************************************)
Init ==
    /\ config = Obj(<<>>)
    /\ cfgCall = NoCfgCall
    /\ cfgOps = 0
    /\ definition \in {1, 2}
    /\ cache = EmptyMap
    /\ conversions = EmptyMap
    /\ vCall = NoCall
    /\ registry = EmptyMap
    /\ hooks = EmptyMap
    /\ hookCall = IdleCall
    /\ regLog = <<>>
    /\ pCall = NoPCall
    /\ pOps = 0
    /\ schemas = EmptyMap
    /\ loads = <<>>
    /\ invoked = EmptyMap
    /\ coreCall = NoCoreCall
    /\ coreOps = 0

NextConfig ==
    \/ \E cfg \in Fragments : merge(cfg)
    \/ \E supplied \in Supplies, rejects \in BOOLEAN : load(supplied, rejects)

NextValidator ==
    \E input \in ValidateInputs : validate(input.data, input.schema, input.options)

NextPlugins ==
    \/ \E plugin \in Plugins : register(plugin)
    \/ \E name \in PluginNames : unregister(name)
    \/ \E name \in HookNames, hook \in HookFns : addHook(name, hook)
    \/ \E name \in HookNames, hook \in HookFns : removeHook(name, hook)
    \/ \E name \in HookNames : callHook(name)
    \/ \E throws \in BOOLEAN : hookSettles(throws)

NextCore ==
    \/ \E plugin \in CorePlugins : register(plugin)
    \/ \E type \in SchemaTypes : loadSchema(type)
    \/ \E i \in 1..MaxCoreOps, schema \in LoadedSchemas, fails \in BOOLEAN :
          loadSchemaSettles(i, schema, fails)
    \/ \E input \in CoreInputs : coreValidate(input.data, input.schema)

Next == NextConfig \/ NextValidator \/ NextPlugins \/ NextCore

SpecConfig == Init /\ [][NextConfig]_vars
SpecValidator == Init /\ [][NextValidator]_vars
SpecPlugins == Init /\ [][NextPlugins]_vars
SpecCore == Init /\ [][NextCore]_vars
Spec == Init /\ [][Next]_vars

(***************************************************************************)
(* Properties of merge() and load().                                       *)
(***************************************************************************)
\* The lower-precedence fragment of the last ConfigManager call: the stored
\* configuration for merge, getDefaults() for load.
LowerOfCall == IF cfgCall.op = "merge" THEN cfgCall.prev ELSE getDefaults
MergedByCall == cfgCall.op \in {"merge", "load"} /\ cfgCall.outcome = "returned"

RECURSIVE ArraysReplaced(_, _, _)
ArraysReplaced(high, low, out) ==
    \A k \in KeySet(high) \cap KeySet(low) :
        LET h == Get(high, k)
            l == Get(low, k)
            o == Get(out, k)
        IN /\ (IsArr(h) /\ IsArr(l)) => o = h
           /\ (IsObj(h) /\ IsObj(l) /\ IsObj(o)) => ArraysReplaced(h, l, o)

\* C1: when both merged fragments hold an array at the same key, the merged
\* value at that key is exactly the higher-precedence fragment's array (the
\* argument of merge over the stored configuration, the loaded value over
\* getDefaults()), never a concatenation.
C1_ArrayReplacedWholesale ==
    MergedByCall => ArraysReplaced(cfgCall.arg, LowerOfCall, config)

RECURSIVE HigherWins(_, _, _)
HigherWins(high, low, out) ==
    \A k \in KeySet(high) \cap KeySet(low) :
        LET h == Get(high, k)
            l == Get(low, k)
            o == Get(out, k)
        IN IF IsObj(h) /\ IsObj(l) THEN IsObj(o) /\ HigherWins(h, l, o)
           ELSE IF IsArr(h) /\ IsArr(l) THEN TRUE
           ELSE o = h

\* C2: at every key where the two merged fragments hold values that are not
\* both mappings (array against array, the case of C1, left aside), the
\* merged value is the higher-precedence fragment's value; such a merge
\* never throws.
C2_HigherPrecedenceWins ==
    /\ cfgCall.op = "merge" => cfgCall.outcome = "returned"
    /\ MergedByCall => HigherWins(cfgCall.arg, LowerOfCall, config)

\* out is the deep merge of the mappings high and low as far as their keys
\* go: it has the union of their keys, a key of only one of them with that
\* one's value, a key at which both hold a mapping with the deep merge of
\* the two.
RECURSIVE DeepMerged(_, _, _)
DeepMerged(high, low, out) ==
    /\ IsObj(out)
    /\ KeySet(out) = KeySet(high) \cup KeySet(low)
    /\ \A k \in KeySet(high) \ KeySet(low) : Get(out, k) = Get(high, k)
    /\ \A k \in KeySet(low) \ KeySet(high) : Get(out, k) = Get(low, k)
    /\ \A k \in KeySet(high) \cap KeySet(low) :
          (IsObj(Get(high, k)) /\ IsObj(Get(low, k)))
          => DeepMerged(Get(high, k), Get(low, k), Get(out, k))

\* C21: merge is deep: at a key where both merged fragments hold a mapping,
\* the merged value is the recursive merge over the union of the two
\* mappings' keys, the keys of only one of them all kept.
C21_DeepMerge ==
    MergedByCall
    => \A k \in KeySet(cfgCall.arg) \cap KeySet(LowerOfCall) :
          (IsObj(Get(cfgCall.arg, k)) /\ IsObj(Get(LowerOfCall, k)))
          => DeepMerged(Get(cfgCall.arg, k), Get(LowerOfCall, k), Get(config, k))

\* C19: merging a single fragment F into the empty configuration stores
\* exactly F, whatever F holds (null values, empty objects, arrays); with
\* nothing merged the configuration is the empty fragment; a key that one of
\* the two merged fragments lacks keeps the other fragment's value.
C19_MergeIdentity ==
    /\ cfgOps = 0 => config = Obj(<<>>)
    /\ (cfgCall.op = "merge" /\ cfgCall.outcome = "returned")
       => /\ cfgCall.prev = Obj(<<>>) => SameContent(config, cfgCall.arg)
          /\ \A k \in KeySet(cfgCall.arg) \ KeySet(cfgCall.prev) :
                Get(config, k) = Get(cfgCall.arg, k)
          /\ \A k \in KeySet(cfgCall.prev) \ KeySet(cfgCall.arg) :
                Get(config, k) = Get(cfgCall.prev, k)

\* C20: merge is associative and not commutative.  With C the stored
\* configuration before the last merge and B its argument, merging any A
\* next stores A over (B over C), and that equals (A over B) over C.
C20_MergeAssociative ==
    /\ (cfgCall.op = "merge" /\ cfgCall.outcome = "returned")
       => /\ config = defu(cfgCall.arg, cfgCall.prev)
          /\ \A A \in Fragments :
                SameContent(defu(A, config),
                            defu(defu(A, cfgCall.arg), cfgCall.prev))
    /\ \E A, B \in Fragments : ~SameContent(defu(A, B), defu(B, A))

\* The place of a source type in the default sources.
SourceIndex(type) ==
    CHOOSE i \in 1..Len(setupDefaultSources) :
        Get(setupDefaultSources[i], "type") = Str(type)

\* C22: the sources are combined in the order CLI arguments > environment
\* variables > configuration file: a key supplied by both the command line
\* and the environment has the command line's value in the loaded
\* configuration, a key supplied by the environment and the file (and not
\* the command line) has the environment's; the default sources are set up
\* in that order.
C22_SourcePrecedence ==
    (cfgCall.op = "load" /\ cfgCall.outcome = "returned")
    => LET args == cfgCall.supplied.args
           env == cfgCall.supplied.env
           file == cfgCall.supplied.file
       IN /\ \A k \in KeySet(args) \cap KeySet(env) :
                Get(config, k) = Get(args, k)
          /\ \A k \in (KeySet(env) \cap KeySet(file)) \ KeySet(args) :
                Get(config, k) = Get(env, k)
          /\ SourceIndex("args") < SourceIndex("env")
          /\ SourceIndex("env") < SourceIndex("file")

\* C23: a loaded value that does not satisfy configSchema makes load reject:
\* no configuration is returned.
C23_InvalidLoadRejects ==
    (cfgCall.op = "load" /\ ~safeParse(configSchema, cfgCall.arg).success)
    => cfgCall.outcome = "thrown"
C23_Witness ==
    /\ cfgCall.op = "load"
    /\ cfgCall.outcome = "thrown"
    /\ ~safeParse(configSchema, cfgCall.arg).success
    /\ Get(cfgCall.arg, "output") # Undef

\* C29: a load that fails leaves the stored configuration as it was before
\* the call; the stored configuration is replaced only by a load whose
\* loaded value passed configSchema.
C29_FailedLoadKeepsConfig ==
    cfgCall.op = "load"
    => /\ cfgCall.outcome = "thrown" => config = cfgCall.prev
       /\ cfgCall.outcome = "returned"
            => /\ safeParse(configSchema, cfgCall.arg).success
               /\ config = defu(cfgCall.arg, getDefaults)
C29_Witness ==
    /\ cfgCall.op = "load"
    /\ cfgCall.outcome = "thrown"
    /\ cfgCall.prev # Obj(<<>>)
    /\ config = cfgCall.prev
    /\ Get(cfgCall.arg, "schema") = Str("strict")

(***************************************************************************)
(* Properties of validate() and of the validator cache.                    *)
(***************************************************************************)
\* The type a schema property declares, and whether a value has it.
TypeMatches(type, v) ==
    CASE type \in {"string", "boolean", "null", "object", "array", "number"} -> v.t = type
      [] type = "integer" -> v.t = "number" /\ v.n2 % 2 = 0
      [] OTHER -> TRUE
\* An object schema whose properties declare a type and nothing else and are
\* all listed in required.
AllRequiredTypeOnly(schema) ==
    /\ IsObj(schema)
    /\ Get(schema, "type") = Str("object")
    /\ IsObj(Get(schema, "properties"))
    /\ \A k \in KeySet(Get(schema, "properties")) :
          /\ Includes(Get(schema, "required"), k)
          /\ Get(Get(schema, "properties"), k) \in {TypeOnly(t) : t \in
                {"string", "number", "boolean", "null", "any"}}
\* The properties of the schema that data lacks or holds with the wrong type.
FailingProperties(schema, data) ==
    {k \in KeySet(Get(schema, "properties")) :
        \/ Get(data, k) = Undef
        \/ ~TypeMatches(Get(Get(schema, "properties"), k).kv[1][2].s, Get(data, k))}
ErrorsAt(errors, path) == {i \in 1..Len(errors) : errors[i].path = path}

\* C3: for an object schema whose properties are all required and an input
\* object in which k of them are missing or of the wrong type, validate
\* returns success = false with exactly k errors, one at the path [p] of
\* each failing property p.
C3_OneErrorPerFailingProperty ==
    (/\ vCall.outcome = "returned"
     /\ AllRequiredTypeOnly(vCall.schema)
     /\ IsObj(vCall.data)
     /\ FailingProperties(vCall.schema, vCall.data) # {})
    => LET failing == FailingProperties(vCall.schema, vCall.data)
           errors == vCall.result.errors
       IN /\ ~vCall.result.success
          /\ Len(errors) = Cardinality(failing)
          /\ \A k \in failing : Cardinality(ErrorsAt(errors, <<KeyP(k)>>)) = 1

FreshOutcome(data, schema) ==
    IF IsThrown(ConvertedOf[definition, schema]) /\ definition = 2
    THEN "thrown" ELSE "returned"
FreshResult(data, schema) ==
    LET zodSchema == ConvertedOf[definition, schema]
    IN IF IsThrown(zodSchema) THEN CaughtResult(zodSchema.error)
       ELSE ValidationResult(zodSchema, data)

\* C30: the cache is transparent: whatever calls were made before on the
\* SchemaValidator, validate(data, schema) ends as it does on a new
\* instance and returns the same result (success, errors in order, data);
\* a schema that shares the cache key of the schema of the call converts to
\* the same validator.
C30_CacheTransparent ==
    vCall.outcome # "none"
    => /\ vCall.outcome = FreshOutcome(vCall.data, vCall.schema)
       /\ vCall.outcome = "returned"
            => vCall.result = FreshResult(vCall.data, vCall.schema)
       /\ \A other \in Schemas :
             CacheKeyOf[other] = vCall.cacheKey
                => ConvertedOf[definition, other] = ConvertedOf[definition, vCall.schema]

\* C5: two schemas with the same structural content, whatever the insertion
\* order of their keys, map to the same cache key, so there is one compiled
\* validator for them.
C5_CanonicalCacheKey ==
    \A s1, s2 \in Schemas :
        (/\ CacheKeyOf[s1] \in DOMAIN cache
         /\ CacheKeyOf[s2] \in DOMAIN cache
         /\ SameContent(s1, s2))
        => CacheKeyOf[s1] = CacheKeyOf[s2]

\* A schema as the data model describes it: a mapping with a kind, whose
\* properties and items are schemas, whose required names are properties,
\* and whose pattern is a regular expression.
RECURSIVE WellFormed(_)
WellFormed(schema) ==
    /\ IsObj(schema)
    /\ Get(schema, "type").t = "string"
    /\ LET props == Get(schema, "properties")
           required == Get(schema, "required")
       IN /\ props = Undef \/ (IsObj(props) /\ \A k \in KeySet(props) : WellFormed(Get(props, k)))
          /\ required = Undef
               \/ (IsArr(required) /\ IsObj(props)
                   /\ \A i \in 1..Len(required.e) :
                         required.e[i].t = "string" /\ Has(props, required.e[i].s))
    /\ Get(schema, "items") = Undef \/ WellFormed(Get(schema, "items"))
    /\ Get(schema, "pattern") = Undef
         \/ (Get(schema, "pattern").t = "string" /\ ValidRegExp(Get(schema, "pattern").s))

\* C10: validate never throws because of the data: for a well-formed schema
\* and any value it returns a ValidationResult, and a value that fails the
\* schema comes back as success = false with its errors.
C10_DataNeverThrows ==
    (vCall.outcome # "none" /\ WellFormed(vCall.schema))
    => /\ vCall.outcome = "returned"
       /\ vCall.result.success
            \/ (vCall.result.errors # <<>> /\ vCall.result.data = Undef)
C10_Witness ==
    /\ vCall.outcome = "returned"
    /\ WellFormed(vCall.schema)
    /\ ~vCall.result.success

\* C11: in every ValidationResult validate returns, success is true exactly
\* when errors is empty, the results made by a catch included.
C11_SuccessIffNoErrors ==
    vCall.outcome = "returned"
    => (vCall.result.success <=> vCall.result.errors = <<>>)
C11_Witness ==
    /\ vCall.outcome = "returned"
    /\ IsThrown(ConvertedOf[definition, vCall.schema])
    /\ ~vCall.result.success
    /\ Len(vCall.result.errors) = 1

\* C12: with coercion asked for in the options, validating the string "42"
\* against a schema of type number succeeds and returns the number 42 as
\* data; without it the same input fails.
C12_CoercionOnRequest ==
    (/\ vCall.outcome = "returned"
     /\ Get(vCall.schema, "type") = Str("number")
     /\ vCall.data = Str("42"))
    => IF Get(vCall.options, "coerce") = Bool(TRUE)
       THEN vCall.result.success /\ vCall.result.data = Num(42)
       ELSE ~vCall.result.success

\* A string schema that carries enum values.
HasEnum(schema) ==
    /\ IsObj(schema)
    /\ Get(schema, "type") = Str("string")
    /\ IsArr(Get(schema, "enum"))

UnknownKeys(schema, data) == KeySet(data) \ KeySet(Get(schema, "properties"))

\* C14: with additionalProperties false, every key of the input that is not
\* a property makes validation fail with an error at that key's path; with
\* additionalProperties left out or true, such keys are accepted and are in
\* the validated data with their values.
C14_AdditionalProperties ==
    (/\ vCall.outcome = "returned"
     /\ WellFormed(vCall.schema)
     /\ Get(vCall.schema, "type") = Str("object")
     /\ IsObj(Get(vCall.schema, "properties"))
     /\ IsObj(vCall.data))
    => \A k \in UnknownKeys(vCall.schema, vCall.data) :
          IF Get(vCall.schema, "additionalProperties") = Bool(FALSE)
          THEN /\ ~vCall.result.success
               /\ ErrorsAt(vCall.result.errors, <<KeyP(k)>>) # {}
          ELSE /\ ErrorsAt(vCall.result.errors, <<KeyP(k)>>) = {}
               /\ vCall.result.success
                    => Get(vCall.result.data, k) = Get(vCall.data, k)

\* minimum <= n <= maximum for the bounds the schema gives.
WithinBounds(schema, v) ==
    /\ Get(schema, "minimum") # Undef => Get(schema, "minimum").n2 <= v.n2
    /\ Get(schema, "maximum") # Undef => v.n2 <= Get(schema, "maximum").n2

\* C15: a schema of type integer accepts exactly the integral numbers
\* within minimum and maximum (both inclusive): a number that is not
\* integral (1.5) and a value that is not a number are rejected.
C15_IntegerRejectsNonIntegral ==
    (vCall.outcome = "returned" /\ Get(vCall.schema, "type") = Str("integer"))
    => (vCall.result.success
          <=> /\ vCall.data.t = "number"
              /\ vCall.data.n2 % 2 = 0
              /\ WithinBounds(vCall.schema, vCall.data))

\* C16: for a number or integer schema with multipleOf = m, a number that is
\* accepted is exactly divisible by m.
C16_MultipleOf ==
    (/\ vCall.outcome = "returned"
     /\ Get(vCall.schema, "type") \in {Str("number"), Str("integer")}
     /\ Get(vCall.schema, "multipleOf") # Undef
     /\ vCall.data.t = "number"
     /\ vCall.result.success)
    => vCall.data.n2 % Get(vCall.schema, "multipleOf").n2 = 0

\* C17: converting an array schema without items does not fail, and every
\* array is accepted, whatever its elements; with items, every element is
\* validated against items, and an element at index i that fails it yields
\* an error whose path ends in i.
C17_ArrayItems ==
    (/\ vCall.outcome # "none"
     /\ WellFormed(vCall.schema)
     /\ Get(vCall.schema, "type") = Str("array"))
    => /\ vCall.outcome = "returned"
       /\ ~IsThrown(ConvertedOf[definition, vCall.schema])
       /\ IsArr(vCall.data) =>
            IF Get(vCall.schema, "items") = Undef
            THEN vCall.result.success
            ELSE LET type == Get(Get(vCall.schema, "items"), "type").s
                     bad == {i \in 1..Len(vCall.data.e) : ~TypeMatches(type, vCall.data.e[i])}
                 IN /\ vCall.result.success <=> bad = {}
                    /\ \A i \in bad :
                          \E j \in 1..Len(vCall.result.errors) :
                             LET path == vCall.result.errors[j].path
                             IN path # <<>> /\ path[Len(path)] = IdxP(i - 1)

\* Path p comes no later than path q in the depth-first, left-to-right walk
\* of the schema: properties in the order they are declared, items by index.
RECURSIVE PathBefore(_, _, _)
PathBefore(p, q, schema) ==
    IF p = <<>> \/ q = <<>> THEN TRUE
    ELSE IF Get(schema, "type") = Str("object")
    THEN LET keys == KeySeq(Get(schema, "properties"))
             pp == IndexOf(keys, p[1].key)
             qq == IndexOf(keys, q[1].key)
         IN \/ pp < qq
            \/ /\ pp = qq
               /\ PathBefore(Tail(p), Tail(q), Get(Get(schema, "properties"), p[1].key))
    ELSE IF Get(schema, "type") = Str("array")
    THEN \/ p[1].idx < q[1].idx
         \/ /\ p[1].idx = q[1].idx
            /\ PathBefore(Tail(p), Tail(q), Get(schema, "items"))
    ELSE TRUE

\* C18: the errors of a failed validate are in depth-first, left-to-right
\* order of the schema's declarations, whatever the order of the keys in the
\* input: two inputs that differ only in the insertion order of their keys
\* get the same error sequence (paths and messages).
C18_ErrorsInSchemaOrder ==
    (/\ vCall.outcome = "returned"
     /\ ~IsThrown(ConvertedOf[definition, vCall.schema]))
    => LET errors == vCall.result.errors
       IN /\ \A i, j \in 1..Len(errors) :
                i < j => PathBefore(errors[i].path, errors[j].path, vCall.schema)
          /\ \A other \in DataValues :
                SameContent(vCall.data, other)
                => ResultOf[cache[vCall.cacheKey], other].errors = errors
C18_Witness ==
    /\ vCall.outcome = "returned"
    /\ Len(vCall.result.errors) = 3
    /\ Len(vCall.result.errors[1].path) = 2
    /\ \E other \in DataValues : other # vCall.data /\ SameContent(vCall.data, other)

(***************************************************************************)
(* Properties of the PluginSystem.                                         *)
(***************************************************************************)
\* A step that is a register / unregister call.
RegisterStep == pOps' = pOps + 1 /\ pCall'.op = "register" /\ pCall' # pCall
UnregisterStep == pOps' = pOps + 1 /\ pCall'.op = "unregister" /\ pCall' # pCall
NoDuplicates(seq) == \A i, j \in 1..Len(seq) : seq[i] = seq[j] => i = j

\* C6: register(plugin) throws when plugin.name is empty or a plugin of that
\* name is registered, and only then; a register that throws leaves the
\* registry and the hooks map exactly as they were.
C6_RegisterRejectsWithoutEffect ==
    [][RegisterStep =>
         /\ pCall'.outcome = "thrown"
              <=> (pCall'.name = "" \/ pCall'.name \in DOMAIN registry)
         /\ pCall'.outcome = "thrown" => (registry' = registry /\ hooks' = hooks)
         /\ pCall'.outcome = "returned"
              => (pCall'.name \in DOMAIN registry'
                  /\ registry'[pCall'.name] = pCall'.plugin)]_vars
C6_Witness ==
    /\ pCall.op = "register"
    /\ pCall.outcome = "thrown"
    /\ pCall.name \in DOMAIN registry
    /\ registry[pCall.name] # pCall.plugin
    /\ \E i \in 1..Len(pCall.plugin.hooks) :
          LET e == pCall.plugin.hooks[i]
          IN e[1] \notin DOMAIN hooks \/ IndexOf(hooks[e[1]], e[2]) = 0

\* The hook functions of the registrations standing under a hook name, in
\* registration order, each function once.
RECURSIVE FirstOccurrences(_, _)
FirstOccurrences(seq, i) ==
    IF i > Len(seq) THEN <<>>
    ELSE (IF \E j \in 1..(i - 1) : seq[j] = seq[i] THEN <<>> ELSE <<seq[i]>>)
         \o FirstOccurrences(seq, i + 1)
RegisteredUnder(name) ==
    LET Under(r) == r[2] = name
        regs == SelectSeq(regLog, Under)
    IN FirstOccurrences([i \in 1..Len(regs) |-> regs[i][3]], 1)

\* C7: a callHook(name) that resolves has invoked the hooks registered under
\* that name in registration order, one after the other, every standing
\* registration once (registrations unchanged since the call started).
C7_HooksRunInRegistrationOrder ==
    (hookCall.status = "resolved" /\ ~hookCall.touched)
    => hookCall.trace = RegisteredUnder(hookCall.name)

\* C8: when the i-th hook under a name throws, callHook rejects with that
\* hook's error and no hook after it is invoked in that call; the hooks
\* before it have each run exactly once (the hooks invoked are the first i
\* of the Set, the registrations being unchanged since the call started).
C8_FailFast ==
    /\ []((hookCall.error # "")
            => /\ hookCall.status = "rejected"
               /\ hookCall.error = hookCall.trace[Len(hookCall.trace)]
               /\ ~hookCall.touched
                    => /\ NoDuplicates(hookCall.trace)
                       /\ hookCall.trace
                            = SubSeq(hooks[hookCall.name], 1, Len(hookCall.trace)))
    /\ [][(hookCall.status = "rejected" /\ pOps' = pOps) => hookCall' = hookCall]_vars
C8_Witness ==
    /\ hookCall.status = "rejected"
    /\ ~hookCall.touched
    /\ Len(hookCall.trace) = 2
    /\ Len(hooks[hookCall.name]) > 2

\* C9: unregister(name) of a registered name removes the plugin from the
\* registry and every hook it contributed from the hooks map, so that a
\* callHook started later invokes none of them; unregister of a name that is
\* not registered throws and changes neither the registry nor the hooks map.
C9_UnregisterRemovesPluginAndHooks ==
    [][UnregisterStep =>
         IF pCall'.name \in DOMAIN registry
         THEN /\ pCall'.outcome = "returned"
              /\ pCall'.name \notin DOMAIN registry'
              /\ \A i \in 1..Len(registry[pCall'.name].hooks) :
                    LET e == registry[pCall'.name].hooks[i]
                    IN e[1] \notin DOMAIN hooks' \/ IndexOf(hooks'[e[1]], e[2]) = 0
              /\ \A n \in DOMAIN registry \ {pCall'.name} :
                    n \in DOMAIN registry' /\ registry'[n] = registry[n]
         ELSE /\ pCall'.outcome = "thrown"
              /\ registry' = registry
              /\ hooks' = hooks]_vars
C9_Witness ==
    /\ pCall.op = "unregister"
    /\ pCall.outcome = "returned"
    /\ Len(pCall.plugin.hooks) = 2
    /\ registry # EmptyMap
    /\ hooks # EmptyMap

\* C25: unregistering a plugin removes no hook of another plugin that stays
\* registered: every (hook name, function) of a plugin still in the registry
\* that was in the hooks map before the unregister is in it afterwards, also
\* when both plugins contributed the same function under the same name.
C25_UnregisterKeepsOthersHooks ==
    [][(UnregisterStep /\ pCall'.outcome = "returned") =>
         \A other \in DOMAIN registry' :
            \A i \in 1..Len(registry'[other].hooks) :
               LET e == registry'[other].hooks[i]
               IN (e[1] \in DOMAIN hooks /\ IndexOf(hooks[e[1]], e[2]) # 0)
                  => (e[1] \in DOMAIN hooks' /\ IndexOf(hooks'[e[1]], e[2]) # 0)]_vars

\* C26: the hooks map holds no hook name with an empty Set: every key of
\* the map has at least one hook under it, and a call that removes the last
\* hook of a name removes the name.
C26_NoEmptyHookSets ==
    \A name \in DOMAIN hooks : hooks[name] # <<>>
C26_Witness ==
    /\ pCall.op \in {"removeHook", "unregister"}
    /\ pCall.outcome = "returned"
    /\ pCall.plugin.hooks # <<>>
    /\ \A i \in 1..Len(pCall.plugin.hooks) : pCall.plugin.hooks[i][1] \notin DOMAIN hooks
    /\ hooks # EmptyMap

\* C27: register tests the name and stores the plugin in one step, so of two
\* register calls for one name made one right after the other the first
\* succeeds and the second throws; the registry holds the plugin of the
\* first call and the hooks map has got that plugin's hooks only.
C27_ConcurrentRegisterOneWins ==
    [][RegisterStep =>
         /\ (pCall'.name # "" /\ pCall'.name \notin DOMAIN registry)
              => /\ pCall'.outcome = "returned"
                 /\ registry' = MapPut(registry, pCall'.name, pCall'.plugin)
                 /\ hooks' = AddHooks(hooks, pCall'.plugin.hooks, 1)
         /\ (pCall.op = "register" /\ pCall.outcome = "returned"
              /\ pCall'.name = pCall.name)
              => /\ pCall'.outcome = "thrown"
                 /\ registry' = registry
                 /\ registry'[pCall'.name] = pCall.plugin
                 /\ hooks' = hooks]_vars
C27_Witness ==
    /\ pOps = 2
    /\ pCall.op = "register"
    /\ pCall.outcome = "thrown"
    /\ DOMAIN registry = {pCall.name}
    /\ registry[pCall.name] # pCall.plugin
    /\ hooks = AddHooks(EmptyMap, registry[pCall.name].hooks, 1)
    /\ hooks # AddHooks(hooks, pCall.plugin.hooks, 1)

(***************************************************************************)
(* Properties of BitXCore.                                                 *)
(***************************************************************************)
\* C24: when validate fails, the error it throws reports every error of the
\* validation result, one line per error in the order of result.errors,
\* each line with the error's path and message.
C24_CoreValidateReportsAllErrors ==
    (coreCall.op = "validate" /\ coreCall.result # Undef /\ ~coreCall.result.success)
    => LET errors == coreCall.result.errors
           lines == coreCall.error.lines
       IN /\ coreCall.outcome = "thrown"
          /\ Len(lines) = Len(errors)
          /\ \A i \in 1..Len(errors) :
                /\ "path" \in DOMAIN errors[i]
                /\ lines[i] = "- " \o JoinPath(errors[i].path, 1) \o ": "
                                  \o errors[i].message

\* C28: plugin.loadSchema is invoked at most once per schema type, also for
\* calls in flight together; a cached schema is what every later call
\* returns and is never replaced; a loadSchema that fails stores nothing.
C28_LoadSchemaOncePerType ==
    /\ [](\A type \in DOMAIN invoked : invoked[type] <= 1)
    /\ []((coreCall.op = "loadSchema" /\ coreCall.hit)
            => coreCall.value = schemas[coreCall.type])
    /\ [][/\ \A type \in DOMAIN schemas :
               type \in DOMAIN schemas' /\ schemas'[type] = schemas[type]
          /\ (coreCall' # coreCall /\ coreCall'.op = "loadSchema"
                 /\ coreCall'.outcome = "thrown") => schemas' = schemas]_vars

====
